---- MODULE Spec2Model ----
(***************************************************************************)
(* my-wallet-back: the sign-up / sign-in controllers                       *)
(* (src/controllers/userController.ts) together with the stores and the    *)
(* session middleware they rely on.  Every request handler is an async     *)
(* function: it runs atomically from one `await` to the next, and the      *)
(* awaited store call is one atomic operation of the database.  An action  *)
(* below is therefore "the awaited call completes and the handler runs on  *)
(* to its next await or to its response".  Handlers of different requests  *)
(* interleave freely at these points.                                      *)
(***************************************************************************)
EXTENDS Integers, Sequences, FiniteSets, TLC

(* ------------------------------ bounds --------------------------------- *)
\* number of request handlers that can be in flight at once
MaxConc == 2
\* number of distinct values the token generator can produce
NumTokens == 2
\* number of rows the transactions table can hold
MaxTx == 1
\* number of distinct salts the password hasher can draw
NumSalts == 1

(* --------------------------- input domains ----------------------------- *)
Slots == 1..MaxConc
Tokens == 1..NumTokens
Salts == 1..NumSalts
\* a field that is absent from the request (undefined / empty string in JS)
Missing == ""
Emails == {"a@x.com", "b@x.com"}
\* a present but not email-shaped value
BadEmail == "ax.com"
Passwords == {"p1", "p2"}
Names == {"A"}
\* no `authorization` header
NoToken == 0
\* the lookup's absence sentinel (undefined)
NoUser == [id |-> 0, name |-> Missing, email |-> Missing, password |-> <<0, Missing>>]
NotFound == 0

\* sign-up bodies: the well-formed ones, and one body for each way the
\* shape validation can fail
SignUpBodies ==
    {[name |-> "A", email |-> "a@x.com", password |-> "p1"],
     [name |-> "A", email |-> "b@x.com", password |-> "p2"]}
    \cup {[name |-> "A", email |-> Missing, password |-> "p1"],
          [name |-> "A", email |-> BadEmail, password |-> "p1"],
          [name |-> Missing, email |-> "a@x.com", password |-> "p1"],
          [name |-> "A", email |-> "a@x.com", password |-> Missing]}

\* sign-in bodies: email and password present, or one of them missing
SignInBodies ==
    [name : {Missing}, email : Emails, password : Passwords]
    \cup {[name |-> Missing, email |-> "a@x.com", password |-> Missing],
          [name |-> Missing, email |-> Missing, password |-> "p1"]}

\* a protected request: method, authorization header, and whether the
\* transaction body passes the handler's schema
ProtectedReqs ==
    {r \in [method : {"POST", "GET"}, token : Tokens \cup {NoToken}, valid : BOOLEAN] :
        r.method = "GET" => r.valid}

NoBody == [name |-> Missing, email |-> Missing, password |-> Missing]
NoReq == [method |-> "", token |-> NoToken, valid |-> FALSE]
NoSent == [name |-> Missing, token |-> NoToken]

(* ------------------------------- state --------------------------------- *)
\* slot fields: kind, pc (position), body / req (the request), user, userId
\* (handler locals), status, sent (the response), and history: fresh (sign-up:
\* the email was not in the store on arrival), overlap (sign-up: another
\* sign-up for the email was in flight meanwhile), fault (a store call of this
\* request threw an unexpected fault)
VARIABLES
    users,          \* table users: sequence of rows, id = position (serial)
    sessions,       \* table sessions: sequence of rows [token, userId]
    transactions,   \* table transactions: sequence of rows [userId]
    slot,           \* the request handlers in flight (their locals and position)
    issued,         \* history: tokens the generator has produced so far
    revoked,        \* history: tokens that have been revoked
    returned,       \* history: token -> id of the user whose sign-in sent it (0: none)
    registered      \* history: <<email, password>> of sign-ups that responded 201

vars == <<users, sessions, transactions, slot, issued, revoked, returned, registered>>

IdleSlot ==
    [kind |-> "none", pc |-> "idle", body |-> NoBody, req |-> NoReq,
     user |-> NoUser, userId |-> NotFound, status |-> 0, sent |-> NoSent,
     fresh |-> FALSE, overlap |-> FALSE, fault |-> FALSE]

Init ==
    /\ users = <<>>
    /\ sessions = <<>>
    /\ transactions = <<>>
    /\ slot = [s \in Slots |-> IdleSlot]
    /\ issued = {}
    /\ revoked = {}
    /\ returned = [t \in Tokens |-> 0]
    /\ registered = {}

(* --------------------------- Password Hasher --------------------------- *)
\* bcrypt: the hashed form embeds the salt; the digest is a one-way,
\* collision-free function of (salt, plaintext), kept here as that pair
hash(plaintext, salt) == <<salt, <<salt, plaintext>>>>

\* userService.isPasswordValid: recompute with the embedded salt and compare
isPasswordValid(plaintext, hashedForm) == hash(plaintext, hashedForm[1]) = hashedForm

(* --------------------------- Credential Store -------------------------- *)
RECURSIVE findEmail(_, _)
\* userService.findEmail: rows[0] of the exact-match SELECT on email, the
\* absence sentinel when no row matches
findEmail(us, email) ==
    IF us = <<>> THEN NoUser
    ELSE IF Head(us).email = email THEN Head(us)
    ELSE findEmail(Tail(us), email)

\* the insert without the storage layer's uniqueness constraint
createUserUnguarded(us, body, salt) ==
    [threw |-> FALSE,
     users |-> Append(us, [id |-> Len(us) + 1, name |-> body.name, email |-> body.email,
                           password |-> hash(body.password, salt)])]

\* userService.createUser: hash the password and insert; the storage layer's
\* uniqueness constraint on email makes the insert throw when the email exists
createUser(us, body, salt) ==
    IF findEmail(us, body.email) # NoUser
    THEN [threw |-> TRUE, users |-> us]
    ELSE [threw |-> FALSE,
          users |-> Append(us, [id |-> Len(us) + 1, name |-> body.name, email |-> body.email,
                                password |-> hash(body.password, salt)])]

\* userService.signUpDataValidationError: name, email and password present
\* and well-formed
signUpDataValidationError(body) ==
    \/ body.name = Missing
    \/ body.email \notin Emails
    \/ body.password = Missing

(* ----------------------------- Session Store --------------------------- *)
\* a generator that may repeat a value it has produced before
uuidRepeating == Tokens

\* uuid v4: the values the generator can return next; never one it has
\* returned before
uuid == Tokens \ issued

\* sessionService.createNewSession: persist {token, userId}
createNewSession(ss, userId, token) == Append(ss, [token |-> token, userId |-> userId])

RECURSIVE resolve(_, _)
\* Session Store resolve: rows[0] of the exact-match SELECT on token, as the
\* user id it maps to; NotFound when no row matches
resolve(ss, token) ==
    IF ss = <<>> THEN NotFound
    ELSE IF Head(ss).token = token THEN Head(ss).userId
    ELSE resolve(Tail(ss), token)

\* Session Store revoke: remove the record
revoke(ss, token) ==
    LET keep(x) == x.token # token
    IN SelectSeq(ss, keep)

(* --------------------------- request handling -------------------------- *)
\* a new request is served by the first free handler
FirstFree(s) ==
    /\ slot[s].pc = "idle"
    /\ \A o \in Slots : o < s => slot[o].pc # "idle"

\* a handler that has been started and has not responded yet
InFlight(s) == slot[s].pc \notin {"idle", "responded"}

\* res.status(code).send(payload): the handler's single response
Respond(s, code, payload) ==
    [slot[s] EXCEPT !.pc = "responded", !.status = code, !.sent = payload]

(* ------------------------------- signUp -------------------------------- *)
\* a sign-up that never answers 409 on a found user
signUpFoundNoConflict(user) == 0

\* signUp, line 12: `if (user) return res.sendStatus(409)`; 0: go on
signUpFound(user) == IF user # NoUser THEN 409 ELSE 0

\* a sign-up that goes on to the lookup without returning on a validation
\* error
SignUpReceiveUnvalidated(s, body) ==
    /\ FirstFree(s)
    /\ slot' = [slot EXCEPT ![s] =
                  [IdleSlot EXCEPT
                      !.kind = "signUp", !.body = body, !.pc = "findEmail",
                      !.fresh = (findEmail(users, body.email) = NoUser)]]
    /\ UNCHANGED <<users, sessions, transactions, issued, revoked, returned, registered>>

\* signUp, lines 5-10: validate the body, then issue findEmail
SignUpReceive(s, body) ==
    /\ FirstFree(s)
    /\ LET started ==
               [IdleSlot EXCEPT
                   !.kind = "signUp", !.body = body, !.pc = "findEmail",
                   !.fresh = (findEmail(users, body.email) = NoUser),
                   !.overlap = (\E o \in Slots \ {s} :
                                    /\ InFlight(o)
                                    /\ slot[o].kind = "signUp"
                                    /\ slot[o].body.email = body.email)]
           mine ==
               IF signUpDataValidationError(body)
               THEN [started EXCEPT !.pc = "responded", !.status = 400]
               ELSE started
       IN slot' = [o \in Slots |->
                     IF o = s THEN mine
                     ELSE IF /\ ~signUpDataValidationError(body)
                             /\ InFlight(o)
                             /\ slot[o].kind = "signUp"
                             /\ slot[o].body.email = body.email
                          THEN [slot[o] EXCEPT !.overlap = TRUE]
                          ELSE slot[o]]
    /\ UNCHANGED <<users, sessions, transactions, issued, revoked, returned, registered>>

\* a sign-up that sends 409 on a found user without returning, and so goes
\* on to createUser
SignUpFindEmailNoReturn(s) ==
    /\ slot[s].kind = "signUp"
    /\ slot[s].pc = "findEmail"
    /\ LET user == findEmail(users, slot[s].body.email)
       IN slot' = [slot EXCEPT ![s] =
                     [slot[s] EXCEPT !.pc = "createUser", !.user = user,
                                     !.status = signUpFound(user)]]
    /\ UNCHANGED <<users, sessions, transactions, issued, revoked, returned, registered>>

\* signUp, lines 10-14: findEmail returns; 409 when found, else issue createUser
SignUpFindEmail(s) ==
    /\ slot[s].kind = "signUp"
    /\ slot[s].pc = "findEmail"
    /\ LET user == findEmail(users, slot[s].body.email)
           code == signUpFound(user)
       IN slot' = [slot EXCEPT ![s] =
                     IF code # 0 THEN Respond(s, code, NoSent)
                     ELSE [slot[s] EXCEPT !.pc = "createUser", !.user = user]]
    /\ UNCHANGED <<users, sessions, transactions, issued, revoked, returned, registered>>

\* a sign-up that also opens a session for the user it created
SignUpCreateUserWithSession(s) ==
    /\ slot[s].kind = "signUp"
    /\ slot[s].pc = "createUser"
    /\ \E salt \in Salts, token \in Tokens :
         LET r == createUser(users, slot[s].body, salt)
         IN /\ users' = r.users
            /\ sessions' =
                  IF r.threw THEN sessions
                  ELSE createNewSession(sessions, Len(r.users), token)
            /\ slot' = [slot EXCEPT ![s] =
                          Respond(s, IF r.threw THEN 500 ELSE 201, NoSent)]
            /\ registered' =
                  IF r.threw THEN registered
                  ELSE registered \cup {<<slot[s].body.email, slot[s].body.password>>}
    /\ UNCHANGED <<transactions, issued, revoked, returned>>

\* signUp, lines 14-20: createUser returns -> 201; it throws -> catch -> 500
SignUpCreateUser(s) ==
    /\ slot[s].kind = "signUp"
    /\ slot[s].pc = "createUser"
    /\ \E salt \in Salts :
         LET r == createUser(users, slot[s].body, salt)
         IN /\ users' = r.users
            /\ slot' = [slot EXCEPT ![s] =
                          Respond(s, IF r.threw THEN 500 ELSE 201, NoSent)]
            /\ registered' =
                  IF r.threw THEN registered
                  ELSE registered \cup {<<slot[s].body.email, slot[s].body.password>>}
    /\ UNCHANGED <<sessions, transactions, issued, revoked, returned>>

(* ------------------------------- signIn -------------------------------- *)
\* a sign-in that answers an unknown email like a wrong password
signInCheckUnknownAs401(user, password) ==
    IF user = NoUser THEN 401
    ELSE IF ~isPasswordValid(password, user.password) THEN 401
    ELSE 0

\* a sign-in that answers a wrong password like an unknown email
signInCheckMismatchAs404(user, password) ==
    IF user = NoUser THEN 404
    ELSE IF ~isPasswordValid(password, user.password) THEN 404
    ELSE 0

\* a sign-in that does not verify the password
signInCheckNoVerify(user, password) ==
    IF user = NoUser THEN 404 ELSE 0

\* a sign-in that rejects the password that verifies
signInCheckInverted(user, password) ==
    IF user = NoUser THEN 404
    ELSE IF isPasswordValid(password, user.password) THEN 401
    ELSE 0

\* signIn, lines 31-32: 404 when no user, 401 when the password does not
\* verify; 0: go on
signInCheck(user, password) ==
    IF user = NoUser THEN 404
    ELSE IF ~isPasswordValid(password, user.password) THEN 401
    ELSE 0

\* a sign-in that opens the session for the first row of the users table
sessionOwnerFirstRow(user) == 1

\* signIn, line 34: the id handed to createNewSession
sessionOwner(user) == user.id

\* a sign-in that goes on to the lookup without the presence check
SignInReceiveUnchecked(s, body) ==
    /\ FirstFree(s)
    /\ slot' = [slot EXCEPT ![s] =
                  [IdleSlot EXCEPT
                      !.kind = "signIn", !.body = body, !.pc = "findEmail"]]
    /\ UNCHANGED <<users, sessions, transactions, issued, revoked, returned, registered>>

\* signIn, lines 23-29: 400 unless email and password are present, then
\* issue findEmail
SignInReceive(s, body) ==
    /\ FirstFree(s)
    /\ LET started ==
               [IdleSlot EXCEPT
                   !.kind = "signIn", !.body = body, !.pc = "findEmail"]
       IN slot' = [slot EXCEPT ![s] =
                     IF body.email = Missing \/ body.password = Missing
                     THEN [started EXCEPT !.pc = "responded", !.status = 400]
                     ELSE started]
    /\ UNCHANGED <<users, sessions, transactions, issued, revoked, returned, registered>>

\* a sign-in that opens the session as soon as the user is found, before the
\* password is verified
SignInFindEmailEagerSession(s) ==
    /\ slot[s].kind = "signIn"
    /\ slot[s].pc = "findEmail"
    /\ LET user == findEmail(users, slot[s].body.email)
           code == signInCheck(user, slot[s].body.password)
       IN IF user = NoUser
          THEN /\ slot' = [slot EXCEPT ![s] = Respond(s, code, NoSent)]
               /\ UNCHANGED <<sessions, issued>>
          ELSE \E token \in uuid :
                 /\ sessions' = createNewSession(sessions, sessionOwner(user), token)
                 /\ issued' = issued \cup {token}
                 /\ slot' = [slot EXCEPT ![s] =
                               IF code # 0 THEN Respond(s, code, NoSent)
                               ELSE Respond(s, 200, [name |-> user.name, token |-> token])]
    /\ UNCHANGED <<users, transactions, revoked, returned, registered>>

\* signIn, lines 29-34: findEmail returns; 404 / 401, else issue
\* createNewSession(user.id)
SignInFindEmail(s) ==
    /\ slot[s].kind = "signIn"
    /\ slot[s].pc = "findEmail"
    /\ LET user == findEmail(users, slot[s].body.email)
           code == signInCheck(user, slot[s].body.password)
       IN slot' = [slot EXCEPT ![s] =
                     IF code # 0 THEN Respond(s, code, NoSent)
                     ELSE [slot[s] EXCEPT !.pc = "createSession", !.user = user,
                                          !.userId = sessionOwner(user)]]
    /\ UNCHANGED <<users, sessions, transactions, issued, revoked, returned, registered>>

\* a sign-in that hands out the user's existing session, when there is one,
\* instead of creating a new one
SignInCreateSessionReuse(s) ==
    /\ slot[s].kind = "signIn"
    /\ slot[s].pc = "createSession"
    /\ LET mine == {i \in 1..Len(sessions) : sessions[i].userId = slot[s].userId}
       IN IF mine # {}
          THEN /\ \E i \in mine :
                    slot' = [slot EXCEPT ![s] =
                               Respond(s, 200, [name |-> slot[s].user.name,
                                                token |-> sessions[i].token])]
               /\ UNCHANGED <<sessions, issued, returned>>
          ELSE \E token \in uuid :
                 /\ sessions' = createNewSession(sessions, slot[s].userId, token)
                 /\ slot' = [slot EXCEPT ![s] =
                               Respond(s, 200, [name |-> slot[s].user.name, token |-> token])]
                 /\ issued' = issued \cup {token}
                 /\ returned' = [returned EXCEPT
                                    ![token] = findEmail(users, slot[s].body.email).id]
    /\ UNCHANGED <<users, transactions, revoked, registered>>

\* signIn, lines 34-39: createNewSession returns the token; respond 200 with
\* {name, token}
SignInCreateSession(s) ==
    /\ slot[s].kind = "signIn"
    /\ slot[s].pc = "createSession"
    /\ \E token \in uuid :
         /\ sessions' = createNewSession(sessions, slot[s].userId, token)
         /\ slot' = [slot EXCEPT ![s] =
                       Respond(s, 200, [name |-> slot[s].user.name, token |-> token])]
         /\ issued' = issued \cup {token}
         /\ returned' = [returned EXCEPT
                            ![token] = findEmail(users, slot[s].body.email).id]
    /\ UNCHANGED <<users, transactions, revoked, registered>>

(* --------------------- session middleware, transactions ---------------- *)
\* a middleware that lets a token through whether it resolves or not
authCheckLenient(userId) == 0

\* middleware: 401 when the token does not resolve; 0: go on
authCheck(userId) == IF userId = NotFound THEN 401 ELSE 0

\* middleware, step 1: 401 when the authorization header is absent, else
\* issue resolve(token)
AuthReceive(s, req) ==
    /\ FirstFree(s)
    /\ LET started ==
               [IdleSlot EXCEPT
                   !.kind = "protected", !.req = req, !.pc = "resolve"]
       IN slot' = [slot EXCEPT ![s] =
                     IF req.token = NoToken
                     THEN [started EXCEPT !.pc = "responded", !.status = 401]
                     ELSE started]
    /\ UNCHANGED <<users, sessions, transactions, issued, revoked, returned, registered>>

\* middleware, steps 2-3: resolve returns; 401 when not found, else attach
\* the user id and invoke the downstream handler
AuthResolve(s) ==
    /\ slot[s].kind = "protected"
    /\ slot[s].pc = "resolve"
    /\ LET userId == resolve(sessions, slot[s].req.token)
           code == authCheck(userId)
       IN slot' = [slot EXCEPT ![s] =
                     IF code # 0 THEN Respond(s, code, NoSent)
                     ELSE [slot[s] EXCEPT !.pc = "handler", !.userId = userId]]
    /\ UNCHANGED <<users, sessions, transactions, issued, revoked, returned, registered>>

\* downstream handler: POST /transactions -> 422 on an invalid body, else
\* insert and 201; GET /transactions -> 200
TransactionHandler(s) ==
    /\ slot[s].kind = "protected"
    /\ slot[s].pc = "handler"
    /\ IF slot[s].req.method = "GET"
       THEN /\ slot' = [slot EXCEPT ![s] = Respond(s, 200, NoSent)]
            /\ UNCHANGED transactions
       ELSE IF ~slot[s].req.valid
       THEN /\ slot' = [slot EXCEPT ![s] = Respond(s, 422, NoSent)]
            /\ UNCHANGED transactions
       ELSE /\ Len(transactions) < MaxTx
            /\ transactions' = Append(transactions, [userId |-> slot[s].userId])
            /\ slot' = [slot EXCEPT ![s] = Respond(s, 201, NoSent)]
    /\ UNCHANGED <<users, sessions, issued, revoked, returned, registered>>

\* logout / cleanup: revoke a token; idempotent
Revoke(token) ==
    /\ token \in issued
    /\ sessions' = revoke(sessions, token)
    /\ revoked' = revoked \cup {token}
    /\ UNCHANGED <<users, transactions, slot, issued, returned, registered>>

\* the response has been sent and the handler has returned
Finish(s) ==
    /\ slot[s].pc = "responded"
    /\ slot' = [slot EXCEPT ![s] = IdleSlot]
    /\ UNCHANGED <<users, sessions, transactions, issued, revoked, returned, registered>>

Next ==
    \/ \E s \in Slots, body \in SignUpBodies : SignUpReceive(s, body)
    \/ \E s \in Slots : SignUpFindEmail(s)
    \/ \E s \in Slots : SignUpCreateUser(s)
    \/ \E s \in Slots, body \in SignInBodies : SignInReceive(s, body)
    \/ \E s \in Slots : SignInFindEmail(s)
    \/ \E s \in Slots : SignInCreateSession(s)
    \/ \E s \in Slots, req \in ProtectedReqs : AuthReceive(s, req)
    \/ \E s \in Slots : AuthResolve(s)
    \/ \E s \in Slots : TransactionHandler(s)
    \/ \E token \in Tokens : Revoke(token)
    \/ \E s \in Slots : Finish(s)

\* the stores honour their contracts: every store call returns
Spec == Init /\ [][Next]_vars

(* --------------------------- storage faults ---------------------------- *)
\* signUp, lines 17-20: the awaited findEmail or createUser throws an
\* unexpected fault; the catch block responds 500
SignUpCatch(s) ==
    /\ slot[s].kind = "signUp"
    /\ slot[s].pc \in {"findEmail", "createUser"}
    /\ slot' = [slot EXCEPT ![s] = [Respond(s, 500, NoSent) EXCEPT !.fault = TRUE]]
    /\ UNCHANGED <<users, sessions, transactions, issued, revoked, returned, registered>>

\* a sign-in whose catch block answers like a failed authentication
SignInCatchAs401(s) ==
    /\ slot[s].kind = "signIn"
    /\ slot[s].pc \in {"findEmail", "createSession"}
    /\ slot' = [slot EXCEPT ![s] = [Respond(s, 401, NoSent) EXCEPT !.fault = TRUE]]
    /\ UNCHANGED <<users, sessions, transactions, issued, revoked, returned, registered>>

\* signIn, lines 40-43: the awaited findEmail or createNewSession throws an
\* unexpected fault; the catch block responds 500
SignInCatch(s) ==
    /\ slot[s].kind = "signIn"
    /\ slot[s].pc \in {"findEmail", "createSession"}
    /\ slot' = [slot EXCEPT ![s] = [Respond(s, 500, NoSent) EXCEPT !.fault = TRUE]]
    /\ UNCHANGED <<users, sessions, transactions, issued, revoked, returned, registered>>

NextFault ==
    \/ Next
    \/ \E s \in Slots : SignUpCatch(s)
    \/ \E s \in Slots : SignInCatch(s)

\* the stores may also fail with an unexpected fault
SpecFault == Init /\ [][NextFault]_vars

\* the continuation of handler s after its pending store call has returned
\* or thrown
HandlerStep(s) ==
    \/ SignUpFindEmail(s)
    \/ SignUpCreateUser(s)
    \/ SignUpCatch(s)
    \/ SignInFindEmail(s)
    \/ SignInCreateSession(s)
    \/ SignInCatch(s)

\* every pending store call eventually returns or throws, and the event loop
\* then runs the handler's continuation
SpecLive == SpecFault /\ \A s \in Slots : WF_vars(HandlerStep(s))

(* ------------------------------- claims -------------------------------- *)
\* a request of the given kind has responded in slot s
Responded(s, kind) == slot[s].kind = kind /\ slot[s].pc = "responded"

\* slot s sends its response in this step
Responds(s, kind) ==
    /\ slot[s].pc # "responded"
    /\ slot'[s].pc = "responded"
    /\ slot'[s].kind = kind

\* C1: two concurrent valid sign-ups for the same, previously unregistered
\* email (both arrived while the email was not in the store): exactly one
\* responds 201 and the other responds 409.
C1_OneCreatedOtherConflict ==
    \A s1 \in Slots, s2 \in Slots :
        /\ s1 # s2
        /\ Responded(s1, "signUp") /\ Responded(s2, "signUp")
        /\ slot[s1].status # 400 /\ slot[s2].status # 400
        /\ slot[s1].body.email = slot[s2].body.email
        /\ slot[s1].fresh /\ slot[s2].fresh
        => {slot[s1].status, slot[s2].status} = {201, 409}

\* C2: the users table holds at most one row per email.
C2_UniqueEmail ==
    \A i \in 1..Len(users), j \in 1..Len(users) :
        users[i].email = users[j].email => i = j

\* C2 witness: two sign-ups raced on one email; one row was inserted and the
\* second insert was refused.
C2_Witness ==
    \E s \in Slots :
        /\ Responded(s, "signUp")
        /\ slot[s].status = 500
        /\ findEmail(users, slot[s].body.email) # NoUser

\* C3: a valid sign-up whose email is not registered when it arrives, and
\* that no other sign-up for that email overlaps, responds 201 and the user
\* is stored; a sign-up that arrives once the email is registered (so after
\* every sign-up that responded 201 for it) responds 409.
C3_CreatedThenConflict ==
    /\ \A pair \in registered : findEmail(users, pair[1]) # NoUser
    /\ \A s \in Slots :
          Responded(s, "signUp") /\ slot[s].status # 400 =>
             /\ (slot[s].fresh /\ ~slot[s].overlap =>
                    /\ slot[s].status = 201
                    /\ findEmail(users, slot[s].body.email).name = slot[s].body.name
                    /\ isPasswordValid(slot[s].body.password,
                                       findEmail(users, slot[s].body.email).password))
             /\ (~slot[s].fresh => slot[s].status = 409)

\* C3 witness: a sign-up responded 201, and a later one for the same email
\* responded 409.
C3_Witness ==
    \E s1 \in Slots, s2 \in Slots :
        /\ Responded(s1, "signUp") /\ slot[s1].status = 201
        /\ slot[s1].fresh /\ ~slot[s1].overlap
        /\ Responded(s2, "signUp") /\ slot[s2].status = 409
        /\ ~slot[s2].fresh
        /\ slot[s2].body.email = slot[s1].body.email

\* C4: a sign-in carrying email and password whose lookup finds no user with
\* that email responds 404 (never 401), whatever the password.
C4_UnknownEmailNotFound ==
    [][\A s \in Slots :
          /\ slot[s].kind = "signIn"
          /\ slot[s].pc = "findEmail"
          /\ slot'[s] # slot[s]
          /\ findEmail(users, slot[s].body.email) = NoUser
          => slot'[s].pc = "responded" /\ slot'[s].status = 404]_vars

\* C4 witness: a sign-in for an unregistered email has responded 404.
C4_Witness ==
    \E s \in Slots :
        /\ Responded(s, "signIn")
        /\ slot[s].status = 404
        /\ findEmail(users, slot[s].body.email) = NoUser

\* C5: a sign-in whose email is registered and whose password does not
\* verify against the stored hash responds 401 (never 404).
C5_WrongPasswordUnauthorized ==
    [][\A s \in Slots :
          /\ slot[s].kind = "signIn"
          /\ slot[s].pc = "findEmail"
          /\ slot'[s] # slot[s]
          /\ findEmail(users, slot[s].body.email) # NoUser
          /\ ~isPasswordValid(slot[s].body.password,
                              findEmail(users, slot[s].body.email).password)
          => slot'[s].pc = "responded" /\ slot'[s].status = 401]_vars

\* C5 witness: a sign-in for a registered email with a password that does
\* not verify has responded 401.
C5_Witness ==
    \E s \in Slots :
        /\ Responded(s, "signIn")
        /\ slot[s].status = 401
        /\ findEmail(users, slot[s].body.email) # NoUser
        /\ ~isPasswordValid(slot[s].body.password,
                            findEmail(users, slot[s].body.email).password)

\* C6: a token sent by a successful sign-in resolves to the id of the user
\* who signed in for as long as it has not been revoked, whatever else has
\* happened since; a token that was never issued does not resolve.
C6_TokenResolvesToOwner ==
    \A t \in Tokens :
        /\ (returned[t] # 0 /\ t \notin revoked => resolve(sessions, t) = returned[t])
        /\ (t \notin issued => resolve(sessions, t) = NotFound)

\* C6 witness: a token of the second user is live after another token was
\* issued and revoked, while some token has never been issued.
C6_Witness ==
    \E t \in Tokens, t2 \in Tokens :
        /\ t # t2
        /\ returned[t] = 2 /\ t \notin revoked
        /\ resolve(sessions, t) = 2
        /\ t2 \in revoked

\* C7: a session row is added only by a sign-in that found the user by email
\* and whose password verified, for the id of that user, who exists in the
\* store at that moment; a sign-in that responds 400, 404 or 401 leaves the
\* sessions table alone.
C7_SessionOnlyForVerifiedUser ==
    [][/\ Len(sessions') > Len(sessions) =>
            \E s \in Slots :
                LET u == findEmail(users, slot[s].body.email)
                IN /\ slot[s].kind = "signIn"
                   /\ slot[s].pc = "createSession"
                   /\ slot'[s].pc = "responded" /\ slot'[s].status = 200
                   /\ u # NoUser
                   /\ isPasswordValid(slot[s].body.password, u.password)
                   /\ sessions' = Append(sessions, sessions'[Len(sessions')])
                   /\ sessions'[Len(sessions')].userId = u.id
                   /\ u.id \in 1..Len(users)
       /\ \A s \in Slots :
            Responds(s, "signIn") /\ slot'[s].status \in {400, 404, 401}
            => sessions' = sessions]_vars

\* C7 witness: a sign-in has responded 200 and its session row exists.
C7_Witness ==
    \E s \in Slots :
        /\ Responded(s, "signIn")
        /\ slot[s].status = 200
        /\ resolve(sessions, slot[s].sent.token) = slot[s].user.id

\* C8: no two rows of the sessions table share a token.
C8_TokenUnique ==
    \A i \in 1..Len(sessions), j \in 1..Len(sessions) :
        sessions[i].token = sessions[j].token => i = j

\* C8 witness: two sign-ins that ran concurrently both hold a live session.
C8_Witness ==
    /\ Len(sessions) = 2
    /\ \E s1 \in Slots, s2 \in Slots :
          /\ s1 # s2
          /\ Responded(s1, "signIn") /\ slot[s1].status = 200
          /\ Responded(s2, "signIn") /\ slot[s2].status = 200

\* C9: the downstream handler of a protected operation is invoked only when
\* the authorization header's token resolves; with the header absent or the
\* token not resolving the response is 401, the handler is not invoked and
\* no transaction is created; transactions are created by the handler only.
C9_HandlerOnlyWhenResolved ==
    [][/\ \A s \in Slots :
            slot'[s].kind = "protected" /\ slot'[s] # slot[s] =>
               /\ (slot'[s].pc = "handler" =>
                      /\ slot[s].pc = "resolve"
                      /\ resolve(sessions, slot[s].req.token) # NotFound
                      /\ slot'[s].userId = resolve(sessions, slot[s].req.token))
               /\ (\/ slot'[s].req.token = NoToken
                   \/ /\ slot[s].pc = "resolve"
                      /\ resolve(sessions, slot[s].req.token) = NotFound
                   => /\ slot'[s].pc = "responded"
                      /\ slot'[s].status = 401
                      /\ transactions' = transactions)
       /\ transactions' # transactions =>
            \E s \in Slots : slot[s].kind = "protected" /\ slot[s].pc = "handler"]_vars

\* C9 witness: a request whose token did not resolve has responded 401 while
\* another request, with a resolving token, has created a transaction.
C9_Witness ==
    \E s1 \in Slots, s2 \in Slots :
        /\ Responded(s1, "protected")
        /\ slot[s1].req.token # NoToken
        /\ slot[s1].status = 401
        /\ Responded(s2, "protected")
        /\ slot[s2].status = 201
        /\ Len(transactions) = 1

\* C10: once a sign-up has responded 201, a sign-in with its email and
\* password goes on to respond 200 with a token; a protected request that
\* carries a token sent by a sign-in (and not revoked) is accepted, not 401;
\* a protected request with no token or a never-issued token responds 401.
C10_EndToEnd ==
    [][\A s \in Slots :
          /\ (/\ slot[s].kind = "signIn"
              /\ slot[s].pc = "findEmail"
              /\ slot'[s] # slot[s]
              /\ <<slot[s].body.email, slot[s].body.password>> \in registered
              => slot'[s].pc = "createSession")
          /\ (/\ slot[s].kind = "signIn"
              /\ slot[s].pc = "createSession"
              /\ slot'[s] # slot[s]
              => /\ slot'[s].pc = "responded" /\ slot'[s].status = 200
                 /\ slot'[s].sent.token \in Tokens
                 /\ returned'[slot'[s].sent.token] # 0)
          /\ (/\ slot[s].kind = "protected"
              /\ slot[s].pc = "resolve"
              /\ slot'[s] # slot[s]
              /\ returned[slot[s].req.token] # 0
              /\ slot[s].req.token \notin revoked
              => slot'[s].pc = "handler")
          /\ (/\ slot[s].kind = "protected"
              /\ slot[s].pc = "handler"
              /\ slot'[s] # slot[s]
              => slot'[s].pc = "responded" /\ slot'[s].status \in {200, 201, 422})
          /\ (Responds(s, "protected") /\ slot'[s].status # 401 =>
                slot[s].pc = "handler")
          /\ (/\ Responds(s, "protected")
              /\ \/ slot'[s].req.token = NoToken
                 \/ slot'[s].req.token \notin issued
              => slot'[s].status = 401)]_vars

\* C10 witness: a protected request carrying the token sent to a user who
\* signed up through the API has responded 200.
C10_Witness ==
    \E s \in Slots :
        /\ Responded(s, "protected")
        /\ slot[s].status = 200
        /\ returned[slot[s].req.token] # 0
        /\ \E pair \in registered :
              users[returned[slot[s].req.token]].email = pair[1]

\* the three tables are left as they are by this step
StoresUnchanged ==
    /\ users' = users
    /\ sessions' = sessions
    /\ transactions' = transactions

\* C11: a sign-up whose body fails the shape validation responds 400 at once:
\* it never has a store call pending, the tables are left alone, and once it
\* has responded the handler does nothing more.
C11_InvalidSignUpTerminal ==
    [][\A s \in Slots :
          /\ (/\ slot[s].pc = "idle"
              /\ slot'[s].kind = "signUp"
              /\ signUpDataValidationError(slot'[s].body)
              => /\ slot'[s].pc = "responded"
                 /\ slot'[s].status = 400
                 /\ StoresUnchanged)
          /\ (/\ Responded(s, "signUp")
              /\ slot[s].status = 400
              /\ slot'[s] # slot[s]
              => slot'[s] = IdleSlot /\ StoresUnchanged)]_vars

\* C11 witness: a sign-up without an email has responded 400 while the users
\* table holds a row (so a lookup or an insert would have had an effect to
\* show).
C11_Witness ==
    \E s \in Slots :
        /\ Responded(s, "signUp")
        /\ slot[s].status = 400
        /\ slot[s].body.email = Missing
        /\ Len(users) = 1

\* C12: a sign-in in which email or password is missing responds 400 at once:
\* no lookup is pending, no password is verified, no session is created.
C12_IncompleteSignInRejected ==
    [][\A s \in Slots :
          /\ (/\ slot[s].pc = "idle"
              /\ slot'[s].kind = "signIn"
              /\ \/ slot'[s].body.email = Missing
                 \/ slot'[s].body.password = Missing
              => /\ slot'[s].pc = "responded"
                 /\ slot'[s].status = 400
                 /\ slot'[s].user = NoUser
                 /\ StoresUnchanged)
          /\ (/\ Responded(s, "signIn")
              /\ slot[s].status = 400
              /\ slot'[s] # slot[s]
              => slot'[s] = IdleSlot /\ StoresUnchanged)]_vars

\* C12 witness: a sign-in for a registered email that carries no password has
\* responded 400.
C12_Witness ==
    \E s \in Slots :
        /\ Responded(s, "signIn")
        /\ slot[s].status = 400
        /\ slot[s].body.password = Missing
        /\ findEmail(users, slot[s].body.email) # NoUser

\* C13: a sign-up whose own lookup found no user but whose insert is refused
\* because the email has been inserted in between responds 409.
C13_InsertConflictIs409 ==
    [][\A s \in Slots :
          /\ slot[s].kind = "signUp"
          /\ slot[s].pc = "createUser"
          /\ slot'[s].pc # "createUser"
          /\ slot[s].user = NoUser
          /\ findEmail(users, slot[s].body.email) # NoUser
          => slot'[s].pc = "responded" /\ slot'[s].status = 409]_vars

\* C14: no step of a sign-up request touches the sessions table or sends a
\* token, whatever its outcome; the step that responds 201 adds exactly one
\* row to the users table, for the request's email.
C14_SignUpIssuesNoSession ==
    [][\A s \in Slots :
          slot'[s].kind = "signUp" /\ slot'[s] # slot[s] =>
             /\ sessions' = sessions
             /\ issued' = issued
             /\ slot'[s].sent = NoSent
             /\ (Responds(s, "signUp") /\ slot'[s].status = 201 =>
                    /\ Len(users') = Len(users) + 1
                    /\ SubSeq(users', 1, Len(users)) = users
                    /\ users'[Len(users')].email = slot[s].body.email)]_vars

\* C14 witness: a sign-up has responded 201 for the second user while the
\* sessions table holds the session of the first.
C14_Witness ==
    \E s \in Slots :
        /\ Responded(s, "signUp")
        /\ slot[s].status = 201
        /\ Len(users) = 2
        /\ Len(sessions) = 1

\* C15: a sign-up whose lookup finds a user with its email responds 409
\* without calling createUser, leaves the tables as they are, and does
\* nothing more once it has responded.
C15_ConflictNoMutation ==
    [][\A s \in Slots :
          /\ (/\ slot[s].kind = "signUp"
              /\ slot[s].pc = "findEmail"
              /\ slot'[s].pc # "findEmail"
              /\ findEmail(users, slot[s].body.email) # NoUser
              => /\ slot'[s].pc = "responded"
                 /\ slot'[s].status = 409
                 /\ StoresUnchanged)
          /\ (/\ Responded(s, "signUp")
              /\ slot[s].status = 409
              /\ slot'[s] # slot[s]
              => slot'[s] = IdleSlot /\ StoresUnchanged)]_vars

\* C15 witness: a sign-up for the one registered email has responded 409.
C15_Witness ==
    \E s \in Slots :
        /\ Responded(s, "signUp")
        /\ slot[s].status = 409
        /\ Len(users) = 1
        /\ users[1].email = slot[s].body.email

\* C16: the step in which a sign-in responds 200 appends one session row, for
\* the user who signed in and under a token no existing row carries, and
\* leaves every existing row in place and resolving as before; so n sign-ins
\* of a user leave n rows with pairwise distinct tokens resolving to the user.
C16_EachSignInAddsSession ==
    [][\A s \in Slots :
          Responds(s, "signIn") /\ slot'[s].status = 200 =>
             LET t == slot'[s].sent.token
                 u == findEmail(users, slot[s].body.email)
             IN /\ \A i \in 1..Len(sessions) : sessions[i].token # t
                /\ sessions' = Append(sessions, [token |-> t, userId |-> u.id])
                /\ resolve(sessions', t) = u.id
                /\ \A i \in 1..Len(sessions) :
                      resolve(sessions', sessions[i].token)
                          = resolve(sessions, sessions[i].token)]_vars

\* C16 witness: two sign-ins of one user have both responded 200, and the
\* user holds two live sessions with different tokens.
C16_Witness ==
    \E s1 \in Slots, s2 \in Slots :
        /\ s1 # s2
        /\ Responded(s1, "signIn") /\ slot[s1].status = 200
        /\ Responded(s2, "signIn") /\ slot[s2].status = 200
        /\ slot[s1].body.email = slot[s2].body.email
        /\ slot[s1].sent.token # slot[s2].sent.token
        /\ resolve(sessions, slot[s1].sent.token) = slot[s1].user.id
        /\ resolve(sessions, slot[s2].sent.token) = slot[s1].user.id

\* C17: a sign-up or sign-in one of whose store calls threw an unexpected
\* fault has responded 500 and sent no token.
C17_FaultIs500 ==
    \A s \in Slots :
        slot[s].fault =>
            /\ slot[s].kind \in {"signUp", "signIn"}
            /\ slot[s].pc = "responded"
            /\ slot[s].status = 500
            /\ slot[s].sent = NoSent

\* C17 witness: createNewSession threw for a sign-in whose user was found and
\* whose password verified.
C17_Witness ==
    \E s \in Slots :
        /\ slot[s].fault
        /\ slot[s].kind = "signIn"
        /\ slot[s].user # NoUser
        /\ slot[s].status = 500

\* position of a handler in its run: it only moves forward
Rank(pc) ==
    CASE pc = "idle" -> 0
      [] pc = "findEmail" -> 1
      [] pc = "resolve" -> 1
      [] pc \in {"createUser", "createSession", "handler"} -> 2
      [] pc = "responded" -> 3

\* C18: every sign-up and sign-in whose store calls return or throw comes to
\* respond; its status is one of 400, 409, 201, 500 (sign-up) or 400, 404,
\* 401, 200, 500 (sign-in); a handler only moves forward, responds once, and
\* does nothing after its response.
C18_RespondsExactlyOnce ==
    /\ \A s \in Slots :
          (slot[s].kind \in {"signUp", "signIn"} /\ InFlight(s))
              ~> (slot[s].pc = "responded")
    /\ [](\A s \in Slots :
             /\ Responded(s, "signUp") => slot[s].status \in {400, 409, 201, 500}
             /\ Responded(s, "signIn") => slot[s].status \in {400, 404, 401, 200, 500}
             /\ InFlight(s) => slot[s].status = 0)
    /\ [][\A s \in Slots :
             /\ (slot[s].pc = "responded" /\ slot'[s] # slot[s] => slot'[s] = IdleSlot)
             /\ (InFlight(s) /\ slot'[s].pc # slot[s].pc =>
                    /\ Rank(slot'[s].pc) > Rank(slot[s].pc)
                    /\ slot'[s].kind = slot[s].kind
                    /\ slot'[s].body = slot[s].body)]_vars

\* C18 witness: a sign-up and a sign-in have both responded, one after a
\* refused insert or a fault, the other with a token.
C18_Witness ==
    \E s1 \in Slots, s2 \in Slots :
        /\ Responded(s1, "signUp") /\ slot[s1].status = 500
        /\ Responded(s2, "signIn") /\ slot[s2].status = 200

\* C19: no step of a sign-in request changes the users table or the
\* transactions table, whatever its outcome; the sessions table changes only
\* in the step that responds 200, and then by one appended row.
C19_SignInFrame ==
    [][\A s \in Slots :
          slot'[s].kind = "signIn" /\ slot'[s] # slot[s] =>
             /\ users' = users
             /\ transactions' = transactions
             /\ IF Responds(s, "signIn") /\ slot'[s].status = 200
                THEN /\ Len(sessions') = Len(sessions) + 1
                     /\ SubSeq(sessions', 1, Len(sessions)) = sessions
                ELSE sessions' = sessions]_vars

\* C19 witness: with two users and one session stored, a sign-in has
\* responded 401.
C19_Witness ==
    \E s \in Slots :
        /\ Responded(s, "signIn")
        /\ slot[s].status = 401
        /\ Len(users) = 2
        /\ Len(sessions) = 1

====
